---- MODULE Spec2Model ----
(***************************************************************************)
(* The Module / Parameter tree of minitorch/module.py as a state machine.  *)
(*                                                                         *)
(* The heap holds Module objects (each one its instance __dict__),         *)
(* Parameter objects (value, name) and the values Parameters wrap (the     *)
(* gradient flag and debug name of a value that has requires_grad_).       *)
(* Operations are the methods of module.py; train() and eval() are run one *)
(* loop iteration at a time, with the caller blocked until they return.    *)
(***************************************************************************)
EXTENDS Integers, Sequences, FiniteSets, TLC

\* ---------------------------------------------------------------- bounds
NMod == 3          \* Module objects constructed
MaxParamsReg == 1  \* Parameter objects constructed in a run of SpecReg
NVal == 3          \* values a Parameter can wrap (1: a float, 2..: autodiff)
MaxParams == 2     \* Parameter objects constructed
MaxOpsParam == 2    \* update and add_parameter calls in a run of SpecParam
MaxOpsReg == 2     \* assignments in a run of SpecReg
MaxOpsMode == 2    \* assignments in a run of SpecMode
MaxOpsLive == 2    \* assignments in a run of SpecLive
MaxOpsEnum == 2    \* assignments in a run of SpecEnum
MaxCalls == 2      \* train()/eval() calls in a run of SpecMode
MaxCallsLive == 1  \* train()/eval() calls in a run of SpecLive

Mod == 1..NMod
Val == 1..NVal

\* ---------------------------------------------------------------- values
\* Python values as tagged records; every record has the same fields.
PyNone == [kind |-> "None", id |-> 0, b |-> FALSE, d |-> <<>>]
PyBool(x) == [kind |-> "bool", id |-> 0, b |-> x, d |-> <<>>]
PyParam(p) == [kind |-> "Parameter", id |-> p, b |-> FALSE, d |-> <<>>]
PyModule(m) == [kind |-> "Module", id |-> m, b |-> FALSE, d |-> <<>>]
PyMethod == [kind |-> "method", id |-> 0, b |-> FALSE, d |-> <<>>]
\* A dict, in insertion order: a sequence of [k |-> key, v |-> value].
PyDict(items) == [kind |-> "dict", id |-> 0, b |-> FALSE, d |-> items]

\* Optional[str] = None
NoneName == "<None>"

DictKeys(items) == {items[j].k : j \in 1..Len(items)}
DictGet(items, key) == (CHOOSE j \in 1..Len(items) : items[j].k = key)
DictLookup(items, key) == items[DictGet(items, key)].v
\* d[key] = v : an existing key keeps its place, a new key goes last.
DictSet(items, key, v) ==
  IF key \in DictKeys(items)
    THEN [items EXCEPT ![DictGet(items, key)] = [k |-> key, v |-> v]]
    ELSE Append(items, [k |-> key, v |-> v])
\* del d[key], when present
DictDel(items, key) == SelectSeq(items, LAMBDA e : e.k # key)
\* list(d.values())
DictValues(items) == [j \in 1..Len(items) |-> items[j].v]

\* Names defined on the class: found before __getattr__ is tried.
ClassAttrs ==
  {"modules", "train", "eval", "named_parameters", "parameters", "add_parameter"}

\* ----------------------------------------------------------------- state
VARIABLES
  __dict__,          \* [Mod -> instance __dict__] : attribute name -> value
  param,             \* the Parameter objects constructed: <<[value, name]>>
  value,             \* [Val -> [requires_grad, name]] of a wrapped value
  pc,                \* "idle", or the position inside train() / eval()
  self,              \* receiver of the running train() / eval()
  nodes_to_process,  \* train(): the level being visited
  future_nodes,      \* train(): the next level
  idx,               \* train(): position of the for loop in the level
  que,               \* eval(): the deque
  ret,               \* what the last operation returned
  raised,            \* the exception the last operation raised, or "none"
  last,              \* the last operation called: [op, m, key, val, p, x]
  prev,              \* the operation called before it
  old,               \* the heap when the last operation was called
  nops,              \* assignments made
  ncalls             \* train()/eval() calls made

frame == <<pc, self, nodes_to_process, future_nodes, idx, que>>
vars == <<__dict__, param, value, pc, self, nodes_to_process, future_nodes,
          idx, que, ret, raised, last, prev, old, nops, ncalls>>

Heap == [d |-> __dict__, param |-> param, value |-> value]
Op(op, m, key, val, p, x) ==
  [op |-> op, m |-> m, key |-> key, val |-> val, p |-> p, x |-> x]
NoOp == Op("none", 0, "", PyNone, 0, 0)

\* ---------------------------------------------------------------- Module
\* Module.__init__ : the instance __dict__ of a new Module.
ModuleInit ==
  [k \in {"_modules", "_parameters", "training"} |->
     IF k = "training" THEN PyBool(TRUE) ELSE PyDict(<<>>)]

\* object.__setattr__(self, key, val) : the instance __dict__ entry is set.
ObjectSetattr(obj, key, val) ==
  [k \in DOMAIN obj \cup {key} |-> IF k = key THEN val ELSE obj[k]]

\* self.__dict__[reg][key] = val raises when that entry is no dict.
SetattrRaised(obj, key, val) ==
  IF val.kind = "Parameter" /\ obj["_parameters"].kind # "dict" THEN "TypeError"
  ELSE IF val.kind = "Module" /\ obj["_modules"].kind # "dict" THEN "TypeError"
  ELSE "none"

\* Mutant of __setattr__: the elif branch is missing, a Module is stored as
\* an ordinary attribute.
SetattrModuleAsAttribute(obj, key, val) ==
  IF SetattrRaised(obj, key, val) # "none" THEN obj
  ELSE IF val.kind = "Parameter"
    THEN [obj EXCEPT !["_parameters"] = PyDict(DictSet(@.d, key, val))]
  ELSE ObjectSetattr(obj, key, val)

\* Mutant of __setattr__: a name lives in one registry at a time, the entry
\* of the other registry under the same name is dropped.
SetattrExclusive(obj, key, val) ==
  IF SetattrRaised(obj, key, val) # "none" THEN obj
  ELSE IF val.kind = "Parameter"
    THEN [obj EXCEPT !["_parameters"] = PyDict(DictSet(@.d, key, val)),
                     !["_modules"] = PyDict(DictDel(@.d, key))]
  ELSE IF val.kind = "Module"
    THEN [obj EXCEPT !["_modules"] = PyDict(DictSet(@.d, key, val)),
                     !["_parameters"] = PyDict(DictDel(@.d, key))]
  ELSE ObjectSetattr(obj, key, val)

\* Module.__setattr__ : the __dict__ of self afterwards.
__setattr__(obj, key, val) ==
  IF SetattrRaised(obj, key, val) # "none" THEN obj
  ELSE IF val.kind = "Parameter"
    THEN [obj EXCEPT !["_parameters"] = PyDict(DictSet(@.d, key, val))]
  ELSE IF val.kind = "Module"
    THEN [obj EXCEPT !["_modules"] = PyDict(DictSet(@.d, key, val))]
  ELSE ObjectSetattr(obj, key, val)

\* Mutant of __getattr__: _modules is searched before _parameters.
GetattrModulesFirst(obj, key) ==
  IF key \in DictKeys(obj["_modules"].d)
    THEN DictLookup(obj["_modules"].d, key)
  ELSE IF key \in DictKeys(obj["_parameters"].d)
    THEN DictLookup(obj["_parameters"].d, key)
  ELSE PyNone

\* Module.__getattr__ : called only when the normal lookup finds nothing.
__getattr__(obj, key) ==
  IF key \in DictKeys(obj["_parameters"].d)
    THEN DictLookup(obj["_parameters"].d, key)
  ELSE IF key \in DictKeys(obj["_modules"].d)
    THEN DictLookup(obj["_modules"].d, key)
  ELSE PyNone

\* key in d, d[key] on a registry raise when the registry is no dict.
GetattrRaised(obj, key) ==
  IF key \in DOMAIN obj \/ key \in ClassAttrs THEN "none"
  ELSE IF obj["_parameters"].kind # "dict" THEN "TypeError"
  ELSE IF key \notin DictKeys(obj["_parameters"].d)
          /\ obj["_modules"].kind # "dict" THEN "TypeError"
  ELSE "none"

\* m.key : the instance __dict__, then the class, then __getattr__.
GetAttribute(obj, key) ==
  IF key \in DOMAIN obj THEN obj[key]
  ELSE IF key \in ClassAttrs THEN PyMethod
  ELSE IF GetattrRaised(obj, key) # "none" THEN PyNone
  ELSE __getattr__(obj, key)

\* ------------------------------------------------------------- Parameter
\* hasattr(x, "requires_grad_")
HasRequiresGrad(x) == x > 1

\* if self.name:
Truthy(name) == name # NoneName /\ name # ""

\* The tail of Parameter.__init__ and of Parameter.update.
Propagate(vals, x, name) ==
  IF HasRequiresGrad(x)
    THEN [vals EXCEPT ![x] = [requires_grad |-> TRUE,
                              name |-> IF Truthy(name) THEN name ELSE @.name]]
    ELSE vals

\* Parameter.__init__(x, name) : the new object.
ParameterInit(x, name) == [value |-> x, name |-> name]

\* Parameter.update(x) : the object afterwards.
ParameterUpdate(p, x) == [p EXCEPT !.value = x]

\* Mutant of UpdateValues: update only stores the value.
UpdateValuesStoreOnly(vals, p, x) == vals

\* The values after Parameter.update(x) on p.
UpdateValues(vals, p, x) == Propagate(vals, x, p.name)

\* Module.add_parameter(k, v) once Parameter p = Parameter(v, k) is built:
\* the __dict__ of self afterwards.
AddParameterRaised(obj) ==
  IF obj["_parameters"].kind # "dict" THEN "TypeError" ELSE "none"

add_parameter(obj, k, p) ==
  IF AddParameterRaised(obj) # "none" THEN obj
  ELSE [obj EXCEPT !["_parameters"] = PyDict(DictSet(@.d, k, PyParam(p)))]

\* ----------------------------------------------------- train() / eval()
\* Mutant of SetTraining: eval() was copied from train() and still sets True.
SetTrainingAlwaysTrue(d, m, b) ==
  [d EXCEPT ![m] = __setattr__(@, "training", PyBool(TRUE))]

\* Mutant of SetTraining: the flag is flipped instead of set.
ToggleTraining(d, m, b) ==
  [d EXCEPT ![m] = __setattr__(@, "training", PyBool(~@["training"].b))]

\* Mutant of SetTraining: the flag is set on the class, for every Module.
SetTrainingOnClass(d, m, b) ==
  [n \in DOMAIN d |-> __setattr__(d[n], "training", PyBool(b))]

\* node.training = b : the Module heap afterwards.
SetTraining(d, m, b) ==
  [d EXCEPT ![m] = __setattr__(@, "training", PyBool(b))]

\* Mutant of Children: the traversal stops at the direct children.
NoChildren(d, m) == <<>>

\* node._modules.values()
Children(d, m) == DictValues(d[m]["_modules"].d)

\* self._modules raises when the attribute read does; .values() when the
\* attribute is no dict.
TraversalRaised(obj) ==
  IF obj["_modules"].kind # "dict" THEN "AttributeError" ELSE "none"

\* Names children are registered under: an ordinary one, and the name of
\* the flag itself.
KeysMode == {"a", "training"}
\* The Modules a run registers and calls: a root, a child, a grandchild.
ModMode == {1, 2, 3}

\* The work list of a traversal is followed up to this length. On an acyclic
\* graph it never gets longer: a Module has at most one child per name, and
\* a path at most one edge less than there are Modules.
WorkCap == Cardinality(KeysMode) ^ (Cardinality(ModMode) - 1)

\* ------------------------------------------------------------------ Init
Init ==
  /\ __dict__ = [m \in Mod |-> ModuleInit]
  /\ param = <<>>
  /\ value = [x \in Val |-> [requires_grad |-> FALSE, name |-> NoneName]]
  /\ pc = "idle"
  /\ self = 0
  /\ nodes_to_process = <<>>
  /\ future_nodes = <<>>
  /\ idx = 0
  /\ que = <<>>
  /\ ret = PyNone
  /\ raised = "none"
  /\ last = NoOp
  /\ prev = NoOp
  /\ old = Heap
  /\ nops = 0
  /\ ncalls = 0

\* --------------------------------------------------------------- actions
\* m.key = val
SetAttr(m, key, val) ==
  /\ pc = "idle"
  /\ __dict__' = [__dict__ EXCEPT ![m] = __setattr__(@, key, val)]
  /\ raised' = SetattrRaised(__dict__[m], key, val)
  /\ ret' = PyNone
  /\ last' = Op("setattr", m, key, val, 0, 0)
  /\ old' = Heap
  /\ nops' = nops + 1
  /\ UNCHANGED <<param, value, frame, prev, ncalls>>

\* m.key
GetAttr(m, key) ==
  /\ pc = "idle"
  /\ ret' = GetAttribute(__dict__[m], key)
  /\ raised' = GetattrRaised(__dict__[m], key)
  /\ last' = Op("getattr", m, key, PyNone, 0, 0)
  /\ old' = Heap
  /\ UNCHANGED <<__dict__, param, value, frame, prev, nops, ncalls>>

\* m.add_parameter(k, v)
AddParameter(m, k, v) ==
  /\ pc = "idle"
  /\ Len(param) < MaxParams
  /\ param' = Append(param, ParameterInit(v, k))
  /\ value' = Propagate(value, v, k)
  /\ __dict__' = [__dict__ EXCEPT ![m] = add_parameter(@, k, Len(param) + 1)]
  /\ raised' = AddParameterRaised(__dict__[m])
  /\ ret' = IF AddParameterRaised(__dict__[m]) = "none"
              THEN PyParam(Len(param) + 1) ELSE PyNone
  /\ last' = Op("add_parameter", m, k, PyNone, Len(param) + 1, v)
  /\ old' = Heap
  /\ nops' = nops + 1
  /\ UNCHANGED <<frame, prev, ncalls>>

\* Parameter(x, name)
NewParameter(x, name) ==
  /\ pc = "idle"
  /\ Len(param) < MaxParams
  /\ param' = Append(param, ParameterInit(x, name))
  /\ value' = Propagate(value, x, name)
  /\ ret' = PyParam(Len(param) + 1)
  /\ raised' = "none"
  /\ last' = Op("Parameter", 0, name, PyNone, Len(param) + 1, x)
  /\ old' = Heap
  /\ UNCHANGED <<__dict__, frame, prev, nops, ncalls>>

\* p.update(x)
Update(p, x) ==
  /\ pc = "idle"
  /\ p \in 1..Len(param)
  /\ param' = [param EXCEPT ![p] = ParameterUpdate(@, x)]
  /\ value' = UpdateValues(value, param[p], x)
  /\ ret' = PyNone
  /\ raised' = "none"
  /\ last' = Op("update", 0, "", PyNone, p, x)
  /\ old' = Heap
  /\ nops' = nops + 1
  /\ UNCHANGED <<__dict__, frame, prev, ncalls>>

\* m.train(), up to the first test of the while loop
TrainCall(m) ==
  /\ pc = "idle"
  /\ __dict__' = SetTraining(__dict__, m, TRUE)
  /\ raised' = TraversalRaised(__dict__[m])
  /\ IF TraversalRaised(__dict__[m]) = "none"
       THEN /\ pc' = "train_while"
            /\ nodes_to_process' = DictValues(__dict__[m]["_modules"].d)
       ELSE /\ pc' = "idle"
            /\ nodes_to_process' = <<>>
  /\ self' = m
  /\ future_nodes' = <<>>
  /\ idx' = 0
  /\ ret' = PyNone
  /\ prev' = last
  /\ last' = Op("train", m, "", PyNone, 0, 0)
  /\ old' = Heap
  /\ ncalls' = ncalls + 1
  /\ UNCHANGED <<param, value, que, nops>>

\* while nodes_to_process: enter the for loop, or return
TrainWhile ==
  /\ pc = "train_while"
  /\ IF nodes_to_process # <<>>
       THEN pc' = "train_for" /\ idx' = 1
       ELSE pc' = "idle" /\ idx' = 0
  /\ UNCHANGED <<__dict__, param, value, self, nodes_to_process, future_nodes,
                 que, ret, raised, last, prev, old, nops, ncalls>>

\* for node in nodes_to_process: one node, or the end of the level
TrainFor ==
  /\ pc = "train_for"
  /\ IF idx <= Len(nodes_to_process)
       THEN LET node == nodes_to_process[idx].id
            IN  /\ Len(future_nodes) + Len(Children(__dict__, node)) <= WorkCap
                /\ __dict__' = SetTraining(__dict__, node, TRUE)
                /\ future_nodes' = future_nodes \o Children(__dict__, node)
                /\ idx' = idx + 1
                /\ UNCHANGED <<pc, nodes_to_process>>
       ELSE /\ nodes_to_process' = future_nodes
            /\ future_nodes' = <<>>
            /\ pc' = "train_while"
            /\ idx' = 0
            /\ UNCHANGED __dict__
  /\ UNCHANGED <<param, value, self, que, ret, raised, last, prev, old, nops,
                 ncalls>>

\* m.eval(), up to the first test of the while loop
EvalCall(m) ==
  /\ pc = "idle"
  /\ __dict__' = SetTraining(__dict__, m, FALSE)
  /\ raised' = TraversalRaised(__dict__[m])
  /\ IF TraversalRaised(__dict__[m]) = "none"
       THEN /\ pc' = "eval_while"
            /\ que' = DictValues(__dict__[m]["_modules"].d)
       ELSE /\ pc' = "idle"
            /\ que' = <<>>
  /\ self' = m
  /\ ret' = PyNone
  /\ prev' = last
  /\ last' = Op("eval", m, "", PyNone, 0, 0)
  /\ old' = Heap
  /\ ncalls' = ncalls + 1
  /\ UNCHANGED <<param, value, nodes_to_process, future_nodes, idx, nops>>

\* while que: one node, or return
EvalWhile ==
  /\ pc = "eval_while"
  /\ IF que # <<>>
       THEN LET node == Head(que).id
            IN  /\ Len(que) - 1 + Len(Children(__dict__, node)) <= WorkCap
                /\ __dict__' = SetTraining(__dict__, node, FALSE)
                /\ que' = Tail(que) \o Children(__dict__, node)
                /\ pc' = pc
       ELSE /\ pc' = "idle"
            /\ UNCHANGED <<__dict__, que>>
  /\ UNCHANGED <<param, value, self, nodes_to_process, future_nodes, idx, ret,
                 raised, last, prev, old, nops, ncalls>>

\* m.named_parameters()
NamedParametersCall(m) ==
  /\ pc = "idle"
  /\ raised' = "NotImplementedError"
  /\ ret' = PyNone
  /\ last' = Op("named_parameters", m, "", PyNone, 0, 0)
  /\ old' = Heap
  /\ UNCHANGED <<__dict__, param, value, frame, prev, nops, ncalls>>

\* m.parameters()
ParametersCall(m) ==
  /\ pc = "idle"
  /\ raised' = "NotImplementedError"
  /\ ret' = PyNone
  /\ last' = Op("parameters", m, "", PyNone, 0, 0)
  /\ old' = Heap
  /\ UNCHANGED <<__dict__, param, value, frame, prev, nops, ncalls>>

\* ------------------------------------------------- SpecReg: registration
\* Attribute names: an ordinary one, the three the constructor sets, and a
\* method of the class.
KeysReg == {"w", "training", "_modules", "_parameters", "train"}
\* SpecReg assigns the attributes of one Module; the others are there to be
\* assigned as values and to be left alone.
ModReg == {1}
\* Values assigned: the Parameters built so far, the receiver itself and
\* another Module, a bool and a dict literal.
ValsReg ==
  {PyParam(p) : p \in 1..Len(param)} \cup {PyModule(n) : n \in {1, 2}}
    \cup {PyBool(FALSE), PyDict(<<[k |-> "w", v |-> PyModule(2)]>>)}

NextReg ==
  \/ /\ Len(param) < MaxParamsReg
     /\ NewParameter(1, NoneName)
  \/ /\ nops < MaxOpsReg
     /\ \E m \in ModReg, key \in KeysReg, val \in ValsReg : SetAttr(m, key, val)
  \/ /\ nops < MaxOpsReg
     /\ Len(param) < MaxParamsReg
     /\ \E m \in ModReg, key \in KeysReg : AddParameter(m, key, 1)
  \/ \E m \in ModReg, key \in KeysReg : GetAttr(m, key)

SpecReg == Init /\ [][NextReg]_vars

\* The registries of a Module object, as the claims speak of them.
Params(obj) == obj["_parameters"].d
Modules(obj) == obj["_modules"].d
RegistryNames == {"_modules", "_parameters"}
RegistriesAreDicts(obj) ==
  obj["_parameters"].kind = "dict" /\ obj["_modules"].kind = "dict"
\* Every entry of registry b is an entry of registry a, with the same value.
NoEntryAddedOrChanged(a, b) ==
  \A key \in DictKeys(b) :
    key \in DictKeys(a) /\ DictLookup(a, key) = DictLookup(b, key)
\* Registries a and b agree on every name but key.
SameButFor(a, b, key) ==
  /\ DictKeys(a) \ {key} = DictKeys(b) \ {key}
  /\ \A j \in DictKeys(a) \ {key} : DictLookup(a, j) = DictLookup(b, j)
Assigned == last.op = "setattr" /\ raised = "none"

\* C2 as stated: an assignment routes by the type of the value under every
\* attribute name; a value that is neither a Parameter nor a Module adds or
\* changes no entry of _parameters or _modules.
C2_Original ==
  last.op = "setattr" =>
    LET o == old.d[last.m]
        n == __dict__[last.m]
    IN  /\ raised = "none"
        /\ last.val.kind = "Parameter" =>
             /\ last.key \in DictKeys(Params(n))
             /\ DictLookup(Params(n), last.key) = last.val
        /\ last.val.kind = "Module" =>
             /\ last.key \in DictKeys(Modules(n))
             /\ DictLookup(Modules(n), last.key) = last.val
        /\ last.val.kind \notin {"Parameter", "Module"} =>
             /\ NoEntryAddedOrChanged(Params(o), Params(n))
             /\ NoEntryAddedOrChanged(Modules(o), Modules(n))

\* C2 amended: on a Module whose registries are dicts, a Parameter assigned
\* to m.k becomes m._parameters[k] and a Module becomes m._modules[k], under
\* every name k; any other value assigned under a name other than _modules
\* and _parameters leaves both registries as they were, and assigned to
\* _modules or _parameters it replaces that registry by the value.
C2_RoutesByType ==
  last.op = "setattr" =>
    LET o == old.d[last.m]
        n == __dict__[last.m]
    IN  /\ (last.val.kind = "Parameter" /\ o["_parameters"].kind = "dict") =>
             /\ raised = "none"
             /\ last.key \in DictKeys(Params(n))
             /\ DictLookup(Params(n), last.key) = last.val
        /\ (last.val.kind = "Module" /\ o["_modules"].kind = "dict") =>
             /\ raised = "none"
             /\ last.key \in DictKeys(Modules(n))
             /\ DictLookup(Modules(n), last.key) = last.val
        /\ last.val.kind \notin {"Parameter", "Module"} =>
             /\ raised = "none"
             /\ last.key \notin RegistryNames =>
                  /\ n["_parameters"] = o["_parameters"]
                  /\ n["_modules"] = o["_modules"]
             /\ last.key \in RegistryNames => n[last.key] = last.val

\* A Parameter has been assigned under one of the names the constructor
\* sets, and a Module under another.
C2_Witness ==
  /\ Assigned
  /\ last.val.kind = "Parameter"
  /\ last.key \in {"training", "_modules", "_parameters"}
  /\ \E key \in {"training", "_modules", "_parameters"} \ {last.key} :
       key \in DictKeys(Modules(__dict__[last.m]))

\* The neutral absent value, or the registry entry, a read of m.key finds
\* when it gets to the registries.
RegistryRead(obj, key) ==
  IF key \in DictKeys(Params(obj)) THEN DictLookup(Params(obj), key)
  ELSE IF key \in DictKeys(Modules(obj)) THEN DictLookup(Modules(obj), key)
  ELSE PyNone

\* C3 as stated: after any assignments and add_parameter calls, m.k is
\* m._parameters[k] if present, else m._modules[k] if present, else None,
\* and the read never raises.
C3_Original ==
  last.op = "getattr" =>
    /\ raised = "none"
    /\ ret = RegistryRead(__dict__[last.m], last.key)

\* C3 amended: m.k is the instance attribute k when an ordinary assignment
\* or the constructor has set one (training, _modules, _parameters), else
\* the class attribute k when the class defines one (a method); only
\* otherwise, the registries being dicts, it is m._parameters[k] if present,
\* else m._modules[k] if present, else None, without raising. The read
\* changes nothing.
C3_ReadsRegistriesLast ==
  last.op = "getattr" =>
    LET obj == __dict__[last.m]
    IN  /\ Heap = old
        /\ last.key \in DOMAIN obj => raised = "none" /\ ret = obj[last.key]
        /\ (last.key \notin DOMAIN obj /\ last.key \in ClassAttrs) =>
             raised = "none" /\ ret = PyMethod
        /\ (last.key \notin DOMAIN obj /\ last.key \notin ClassAttrs
              /\ RegistriesAreDicts(obj)) =>
             /\ raised = "none"
             /\ ret = RegistryRead(obj, last.key)

\* A name present in both registries, and not an instance or class
\* attribute, has been read: the Parameter came back.
C3_Witness ==
  /\ last.op = "getattr"
  /\ last.key \notin DOMAIN __dict__[last.m] \cup ClassAttrs
  /\ last.key \in DictKeys(Params(__dict__[last.m]))
  /\ last.key \in DictKeys(Modules(__dict__[last.m]))
  /\ ret.kind = "Parameter"

\* C6: an assignment writes only the registry the value's type selects. A
\* Parameter assigned to m.k leaves m._modules and every other entry of
\* m._parameters as they were, a Module assigned to m.k leaves m._parameters
\* and every other entry of m._modules as they were; the instance
\* attributes of m and every other Module are untouched.
C6_OnlySelectedRegistry ==
  (Assigned /\ last.val.kind \in {"Parameter", "Module"}) =>
    LET o == old.d[last.m]
        n == __dict__[last.m]
    IN  /\ last.val.kind = "Parameter" =>
             /\ n["_modules"] = o["_modules"]
             /\ SameButFor(Params(o), Params(n), last.key)
        /\ last.val.kind = "Module" =>
             /\ n["_parameters"] = o["_parameters"]
             /\ SameButFor(Modules(o), Modules(n), last.key)
        /\ DOMAIN n = DOMAIN o
        /\ \A key \in DOMAIN o \ RegistryNames : n[key] = o[key]
        /\ \A m \in Mod \ {last.m} : __dict__[m] = old.d[m]

\* The name just assigned is present in both registries at once, and the
\* registry written holds another entry as well.
C6_Witness ==
  /\ Assigned
  /\ last.val.kind \in {"Parameter", "Module"}
  /\ last.key \in DictKeys(Params(__dict__[last.m]))
  /\ last.key \in DictKeys(Modules(__dict__[last.m]))

\* --------------------------------------------- SpecParam: Parameter cell
\* Parameter names: None, the empty string, and two names.
NamesParam == {NoneName, "", "w", "b"}

NextParam ==
  \/ \E x \in Val, name \in NamesParam : NewParameter(x, name)
  \/ /\ nops < MaxOpsParam
     /\ \E p \in 1..MaxParams, x \in Val : Update(p, x)
  \/ /\ nops < MaxOpsParam
     /\ \E k \in NamesParam \ {NoneName}, v \in Val : AddParameter(1, k, v)

SpecParam == Init /\ [][NextParam]_vars

\* C8: after Parameter(x, name), and after every later p.update(x), p.value
\* is x and p holds nothing else but its name; an x that has requires_grad_
\* is marked as requiring gradient and takes the Parameter's name as its
\* debug name when the Parameter has one (a name that is neither None nor
\* empty), keeping its own otherwise; an x without requires_grad_ is not
\* modified; no other value or Parameter changes and nothing is raised.
C8_ValueAndPropagation ==
  last.op \in {"Parameter", "update", "add_parameter"} =>
    LET p == last.p
        x == last.x
        name == IF last.op = "update" THEN old.param[p].name ELSE last.key
    IN  /\ raised = "none"
        /\ param[p] = [value |-> x, name |-> name]
        /\ HasRequiresGrad(x) =>
             /\ value[x].requires_grad
             /\ value[x].name =
                  IF name # NoneName /\ name # "" THEN name ELSE old.value[x].name
        /\ ~HasRequiresGrad(x) => value[x] = old.value[x]
        /\ \A y \in Val \ {x} : value[y] = old.value[y]
        /\ \A q \in (1..Len(old.param)) \ {p} : param[q] = old.param[q]

\* update(x) has replaced another value by one that has requires_grad_, was
\* not yet marked and carried another debug name.
C8_Witness ==
  /\ last.op = "update"
  /\ HasRequiresGrad(last.x)
  /\ old.param[last.p].value # last.x
  /\ ~old.value[last.x].requires_grad
  /\ value[last.x].requires_grad
  /\ value[last.x].name = param[last.p].name
  /\ old.value[last.x].name # param[last.p].name

\* ---------------------------------------------- SpecMode: train / eval
NextMode ==
  \/ /\ nops < MaxOpsMode
     /\ \E m \in ModMode, key \in KeysMode, n \in ModMode : SetAttr(m, key, PyModule(n))
  \/ /\ nops < MaxOpsMode
     /\ \E m \in ModMode, b \in BOOLEAN : SetAttr(m, "training", PyBool(b))
  \/ /\ ncalls < MaxCalls
     /\ \E m \in ModMode : TrainCall(m)
  \/ /\ ncalls < MaxCalls
     /\ \E m \in ModMode : EvalCall(m)
  \/ TrainWhile
  \/ TrainFor
  \/ EvalWhile

SpecMode == Init /\ [][NextMode]_vars

\* The Modules registered directly in m._modules, in heap d.
Succ(d, m) == {Modules(d[m])[j].v.id : j \in 1..Len(Modules(d[m]))}
\* S and what n steps through _modules reach from S.
RECURSIVE Within(_, _, _)
Within(d, S, n) ==
  IF n = 0 THEN S ELSE Within(d, S \cup UNION {Succ(d, m) : m \in S}, n - 1)
\* m and every Module reachable from m through _modules.
Subtree(d, m) == Within(d, {m}, NMod)
\* Some Module reachable from m is reachable from itself.
Cyclic(d, m) ==
  \E n \in Subtree(d, m) : n \in Within(d, Succ(d, n), NMod)
Training(d, m) == d[m]["training"]
Returned(op) == pc = "idle" /\ last.op = op /\ raised = "none"

\* C1: when m.train() returns, m and every Module reachable from m through
\* _modules has training == True, whatever the flags were before; when
\* m.eval() returns, every one of them has training == False.
C1_WholeSubtree ==
  /\ Returned("train") =>
       \A n \in Subtree(__dict__, last.m) : Training(__dict__, n) = PyBool(TRUE)
  /\ Returned("eval") =>
       \A n \in Subtree(__dict__, last.m) : Training(__dict__, n) = PyBool(FALSE)

\* train() has returned on a root whose child and grandchild were both in
\* evaluation mode (Scenario B).
C1_Witness ==
  /\ Returned("train")
  /\ \E c \in Succ(__dict__, last.m) \ {last.m} :
       \E g \in Succ(__dict__, c) \ (Succ(__dict__, last.m) \cup {last.m, c}) :
         /\ Training(old.d, c) = PyBool(FALSE)
         /\ Training(old.d, g) = PyBool(FALSE)
         /\ Training(__dict__, g) = PyBool(TRUE)

\* C7: m.train() called right after m.train() returned leaves the heap (the
\* flag and both registries of every Module) as the first call left it.
C7_TrainIdempotent ==
  (Returned("train") /\ prev.op = "train" /\ prev.m = last.m) => Heap = old

\* train() has returned twice in a row on a root with a child, and the first
\* of the two calls had flags to change.
C7_Witness ==
  /\ Returned("train")
  /\ prev.op = "train"
  /\ prev.m = last.m
  /\ Succ(__dict__, last.m) \ {last.m} # {}
  /\ nops > 1

\* C10: c.train() and c.eval() write no flag outside the subtree of c, and
\* no registry at all: at every step of the call and when it returns, every
\* Module that is not c nor reachable from c is as it was when the call was
\* made, and every Module has the registries it had.
C10_OnlyTheSubtree ==
  last.op \in {"train", "eval"} =>
    /\ \A n \in Mod \ Subtree(old.d, last.m) : __dict__[n] = old.d[n]
    /\ \A n \in Mod :
         /\ __dict__[n]["_modules"] = old.d[n]["_modules"]
         /\ __dict__[n]["_parameters"] = old.d[n]["_parameters"]
         /\ DOMAIN __dict__[n] = DOMAIN old.d[n]
    /\ param = old.param
    /\ value = old.value

\* eval() has returned on a child with a child of its own, has switched
\* both, and has left the parent in training mode.
C10_Witness ==
  /\ Returned("eval")
  /\ \E r \in Mod \ Subtree(__dict__, last.m) :
       /\ last.m \in Succ(__dict__, r)
       /\ Training(__dict__, r) = PyBool(TRUE)
  /\ \E g \in Succ(__dict__, last.m) :
       Training(old.d, g) = PyBool(TRUE) /\ Training(__dict__, g) = PyBool(FALSE)

\* --------------------------------------------- SpecLive: termination
\* A call that has started keeps running: the interpreter executes the next
\* iteration of its loop.
NextLive ==
  \/ /\ nops < MaxOpsLive
     /\ \E m \in ModMode, key \in KeysMode, n \in ModMode :
          SetAttr(m, key, PyModule(n))
  \/ /\ ncalls < MaxCallsLive
     /\ \E m \in ModMode : TrainCall(m)
  \/ /\ ncalls < MaxCallsLive
     /\ \E m \in ModMode : EvalCall(m)
  \/ TrainWhile
  \/ TrainFor
  \/ EvalWhile

SpecLive ==
  /\ Init
  /\ [][NextLive]_vars
  /\ WF_vars(TrainWhile)
  /\ WF_vars(TrainFor)
  /\ WF_vars(EvalWhile)

Running == pc # "idle"

\* C9: train() and eval() return exactly when no Module reachable from the
\* receiver is reachable from itself: on an acyclic graph the running call
\* empties its work list and returns without an error, on a cyclic one it
\* never returns, with or without an error.
C9_ReturnsIffAcyclic ==
  /\ (Running /\ ~Cyclic(__dict__, self)) ~> (pc = "idle" /\ raised = "none")
  /\ [][(Running /\ Cyclic(__dict__, self)) => Running']_vars

\* eval() is running on a cyclic graph, has switched every Module it can
\* reach, and still has a Module in its deque.
C9_Witness ==
  /\ pc = "eval_while"
  /\ Cyclic(__dict__, self)
  /\ que # <<>>
  /\ \E n \in Subtree(__dict__, self) \ {self} : Training(old.d, n) = PyBool(TRUE)
  /\ \A n \in Subtree(__dict__, self) : Training(__dict__, n) = PyBool(FALSE)

\* ------------------------------------------- SpecEnum: enumeration
KeysEnum == {"child", "w"}
\* The Modules SpecEnum registers and calls: a root and a child.
ModEnum == {1, 2}

NextEnum ==
  \/ /\ nops < MaxOpsEnum
     /\ \E m \in ModEnum, key \in KeysEnum, n \in ModEnum :
          SetAttr(m, key, PyModule(n))
  \/ /\ nops < MaxOpsEnum
     /\ \E m \in ModEnum, key \in KeysEnum : AddParameter(m, key, 1)
  \/ \E m \in ModEnum : NamedParametersCall(m)
  \/ \E m \in ModEnum : ParametersCall(m)

SpecEnum == Init /\ [][NextEnum]_vars

\* The (qualified name, Parameter) pairs of the subtree of m, down to n
\* levels: the Parameters of m in registration order, then those of each
\* child in registration order, their names prefixed by the child's name.
RECURSIVE Named(_, _, _)
RECURSIVE NamedOfChildren(_, _, _, _)
Named(d, m, n) ==
  Params(d[m]) \o (IF n = 0 THEN <<>> ELSE NamedOfChildren(d, m, 1, n))
NamedOfChildren(d, m, j, n) ==
  IF j > Len(Modules(d[m])) THEN <<>>
  ELSE LET c == Modules(d[m])[j]
           sub == Named(d, c.v.id, n - 1)
       IN  [i \in 1..Len(sub) |-> [k |-> c.k \o "." \o sub[i].k, v |-> sub[i].v]]
             \o NamedOfChildren(d, m, j + 1, n)
Pairs(items) == {items[j] : j \in 1..Len(items)}
Listed == ret.kind = "dict" \/ ret.kind = "list"

\* C4: m.parameters() returns, without failing, a sequence with one element
\* per Parameter owned by m or by a Module reachable from m (the empty
\* sequence when there is none), and changes no registry.
C4_Claim ==
  last.op = "parameters" =>
    /\ raised = "none"
    /\ Listed
    /\ Len(ret.d) = Len(Named(__dict__, last.m, NMod))
    /\ Heap = old

\* C5: m.named_parameters() returns one (qualified name, Parameter) pair per
\* Parameter of the subtree, the name being the local name prefixed by the
\* '.'-joined names of the child modules on the way; the names are pairwise
\* distinct.
C5_Claim ==
  last.op = "named_parameters" =>
    /\ raised = "none"
    /\ Listed
    /\ Pairs(ret.d) = Pairs(Named(__dict__, last.m, NMod))
    /\ Len(ret.d) = Len(Named(__dict__, last.m, NMod))
    /\ \A i, j \in 1..Len(ret.d) : ret.d[i].k = ret.d[j].k => i = j

====
